---------------------------- MODULE Spec2Model ----------------------------
(***************************************************************************)
(* A model of the MCP client of src/client.py: main, connect_to_server,    *)
(* chat_loop, process_query and cleanup, with the tool server, the model   *)
(* API and the terminal as the environment.                                *)
(*                                                                         *)
(* Text (query lines, message contents, paths) is a sequence of one-        *)
(* character strings, so that suffix tests, strip, lower and the regular   *)
(* expression substitution are computed character by character.            *)
(***************************************************************************)
EXTENDS Integers, Sequences, FiniteSets, TLC

VARIABLES
    pc,                 \* position of main / chat_loop / process_query
    server_script_path, \* sys.argv[1]
    error,              \* the exception that is propagating or was last caught
    exit_stack,         \* self.exit_stack: the entered contexts, oldest first
    session,            \* self.session: "none", "entered", "initialized", "closed"
    process,            \* the tool-server child process
    spawns,             \* how many child processes were ever spawned
    releases,           \* how often each context was exited
    cleanup_calls,      \* how often cleanup() has run
    serverTools,        \* the tool set the server exposes right now
    toolList,           \* the tools of the latest list_tools reply
    inbound,            \* server messages the session's reader has not taken yet
    query,              \* process_query's argument
    messages,           \* process_query's local conversation
    response,           \* modelResult of the first model call
    tool_call,          \* the tool call process_query selected
    toolResult,         \* what session.call_tool returned
    calls,              \* this query's outgoing calls in order: "list", "model", "tool"
    modelCalls,         \* this query's chat.completions.create calls, with arguments
    toolCalls,          \* this query's session.call_tool calls, with arguments
    result,             \* what process_query returned
    printed,            \* what this iteration of chat_loop has printed
    queries,            \* number of lines dispatched to process_query so far
    lastLine,           \* the raw line input() returned in this iteration
    caught,             \* whether the except clause of chat_loop has run
    exitCause,          \* where main was when its try block was left
    san_in,             \* sanitizer harness: the text under test
    san_out,            \* sanitizer harness: the last output
    san_prev,           \* sanitizer harness: the output before the last pass
    san_pass            \* sanitizer harness: number of passes applied

vars == <<pc, server_script_path, error, exit_stack, session, process, spawns,
          releases, cleanup_calls, serverTools, toolList, query, messages,
          response, tool_call, toolResult, calls, modelCalls, toolCalls, result,
          printed, queries, lastLine, caught, exitCause, san_in, san_out,
          san_prev, san_pass, inbound>>

connVars == <<exit_stack, session, process, spawns, releases>>
catalogVars == <<serverTools, toolList>>
queryVars == <<query, messages, response, tool_call, toolResult, calls,
               modelCalls, toolCalls, result>>
sanVars == <<san_in, san_out, san_prev, san_pass>>

---------------------------------------------------------------------------
(* Bounds *)

MaxPathLen == 4     \* longest server script path explored by SpecConnect
MaxQueries == 2     \* lines dispatched to process_query in one run
MaxToolCalls == 2   \* tool calls one model response proposes
MaxPieces == 5      \* fragments concatenated into a sanitizer input
MaxInbound == 1     \* server messages written and not yet read by the client

---------------------------------------------------------------------------
(* Text helpers *)

RECURSIVE Concat(_)
Concat(ss) == IF ss = <<>> THEN <<>> ELSE Head(ss) \o Concat(Tail(ss))

\* s[i..] begins with m
StartsAt(s, i, m) ==
    /\ i >= 1
    /\ i + Len(m) - 1 <= Len(s)
    /\ SubSeq(s, i, i + Len(m) - 1) = m

\* str.endswith
EndsWith(s, suffix) == StartsAt(s, Len(s) - Len(suffix) + 1, suffix)

\* the first position >= i where m occurs in s, or 0
FindFrom(s, i, m) ==
    LET hits == {j \in i..Len(s) : StartsAt(s, j, m)}
    IN  IF hits = {} THEN 0 ELSE CHOOSE j \in hits : \A k \in hits : j <= k

\* the last position >= i where m occurs in s, or 0
FindLastFrom(s, i, m) ==
    LET hits == {j \in i..Len(s) : StartsAt(s, j, m)}
    IN  IF hits = {} THEN 0 ELSE CHOOSE j \in hits : \A k \in hits : j >= k

IsSpace(c) == c \in {" ", "\n", "\t"}

\* str.strip(): leading and trailing whitespace removed
Strip(s) ==
    LET keep == {i \in 1..Len(s) : ~IsSpace(s[i])}
    IN  IF keep = {} THEN <<>>
        ELSE SubSeq(s, CHOOSE i \in keep : \A k \in keep : i <= k,
                       CHOOSE i \in keep : \A k \in keep : i >= k)

LowerChar(c) ==
    CASE c = "Q" -> "q"
      [] c = "U" -> "u"
      [] c = "I" -> "i"
      [] c = "T" -> "t"
      [] c = "H" -> "h"
      [] OTHER -> c

\* str.lower()
Lower(s) == [i \in 1..Len(s) |-> LowerChar(s[i])]

\* Python's None where a text is expected (no character is "#None")
None == <<"#None">>

OpenMarker == <<"<", "t", "h", "i", "n", "k", ">">>
CloseMarker == <<"<", "/", "t", "h", "i", "n", "k", ">">>


---------------------------------------------------------------------------
(* Response sanitizer: re.sub(r"<think>.*?</think>", "", text, flags=re.DOTALL) *)

\* The scan of re.sub from position i: at a start marker that has an end
\* marker somewhere after it, the lazy .*? stops at the nearest one and the
\* whole match is dropped; anywhere else the character is copied.  With
\* DOTALL the dot matches every character, newline included.
RECURSIVE ReSubLazy(_, _)
ReSubLazy(s, i) ==
    IF i > Len(s) THEN <<>>
    ELSE LET e == IF StartsAt(s, i, OpenMarker)
                  THEN FindFrom(s, i + Len(OpenMarker), CloseMarker)
                  ELSE 0
         IN  IF e # 0
             THEN ReSubLazy(s, e + Len(CloseMarker))
             ELSE <<s[i]>> \o ReSubLazy(s, i + 1)

\* The same scan with a greedy .* : each match runs to the last end marker.
RECURSIVE ReSubGreedy(_, _)
ReSubGreedy(s, i) ==
    IF i > Len(s) THEN <<>>
    ELSE LET e == IF StartsAt(s, i, OpenMarker)
                  THEN FindLastFrom(s, i + Len(OpenMarker), CloseMarker)
                  ELSE 0
         IN  IF e # 0
             THEN ReSubGreedy(s, e + Len(CloseMarker))
             ELSE <<s[i]>> \o ReSubGreedy(s, i + 1)

RmThinkGreedy(content) == ReSubGreedy(content, 1)

\* rmThinkContent
RmThink(content) == ReSubLazy(content, 1)

---------------------------------------------------------------------------
(* json.loads on the argument payload, tokenised: "{", "}", ":", "," and    *)
(* atoms.  Only flat objects of atoms occur as payloads.                    *)

JsonPunct == {"{", "}", ":", ","}

JsonMembers(p) == SubSeq(p, 2, Len(p) - 1)

\* whether json.loads returns (TRUE) or raises JSONDecodeError (FALSE)
JsonParses(p) ==
    /\ Len(p) >= 2
    /\ p[1] = "{"
    /\ p[Len(p)] = "}"
    /\ LET m == JsonMembers(p)
       IN  \/ m = <<>>
           \/ /\ Len(m) % 4 = 3
              /\ \A k \in 1..Len(m) :
                    CASE k % 4 = 1 -> m[k] \notin JsonPunct
                      [] k % 4 = 2 -> m[k] = ":"
                      [] k % 4 = 3 -> m[k] \notin JsonPunct
                      [] OTHER     -> m[k] = ","

\* the dict json.loads returns, as a set of <<key, value>> pairs (a later
\* duplicate key wins, as in Python)
JsonLoads(p) ==
    LET m == JsonMembers(p)
        n == (Len(m) + 1) \div 4
        lastOf(key) == CHOOSE k \in 1..n :
                          /\ m[4 * k - 3] = key
                          /\ \A j \in 1..n : m[4 * j - 3] = key => j <= k
    IN  {<<m[4 * k - 3], m[4 * k - 1]>> : k \in {j \in 1..n : lastOf(m[4 * j - 3]) = j}}

---------------------------------------------------------------------------
(* Tool catalog *)

\* available_tools: one function entry per listed tool, in listing order
BuildFunctionSpecs(tools) ==
    [i \in 1..Len(tools) |->
        [type |-> "function",
         function |-> [name |-> tools[i].name,
                       description |-> tools[i].description,
                       input_schema |-> tools[i].inputSchema]]]

NoSchema == [type |-> "absent"]

\* What the chat-completions endpoint takes as a function's parameter schema:
\* the "parameters" member of the function entry, and nothing else.
ApiParameterSchema(entry) ==
    IF "parameters" \in DOMAIN entry.function
    THEN entry.function.parameters
    ELSE NoSchema


---------------------------------------------------------------------------
(* The environment: terminal, tool server, model API *)

PathAlphabet == {".", "p", "y", "j", "s"}

\* every path of at most MaxPathLen characters
AllPaths == UNION {[1..n -> PathAlphabet] : n \in 0..MaxPathLen}

\* the paths the full run is explored with
ServerPaths == {<<"s", ".", "p", "y">>, <<"s", ".", "j", "s">>,
                <<"s", ".", "t", "x", "t">>}

Quit == <<"q", "u", "i", "t">>

\* lines the terminal may deliver to input()
Lines == {Quit,
          <<" ", "Q", "U", "I", "T", "\n">>,
          <<>>,
          <<" ", "H", "i">>,
          <<"q", "u", "i", "t", " ", "h", "i">>}

WeatherTool ==
    [name |-> "query_weather", description |-> "weather of a city",
     inputSchema |-> [type |-> "object", required |-> {"city"}]]

TimeTool ==
    [name |-> "get_time", description |-> "current time",
     inputSchema |-> [type |-> "object", required |-> {}]]

\* tool listings the server may answer with, in declaration order
ToolSets == {<<>>, <<WeatherTool>>, <<TimeTool, WeatherTool>>}

ToolNames == {"query_weather", "no_such_tool"}

\* argument payloads the model may emit, tokenised
ArgPayloads == {<<"{", "city", ":", "Paris", "}">>,
                <<"{", "city", ":">>}

Answer == <<"o", "k">>

\* message contents the model may produce
Contents ==
    {Answer,
     OpenMarker \o <<"r">> \o CloseMarker \o Answer,
     OpenMarker \o <<"a", "\n">> \o CloseMarker \o <<"b">>
        \o OpenMarker \o CloseMarker \o <<"c">>}

ToolCall(id, name, arguments) ==
    [id |-> id, function |-> [name |-> name, arguments |-> arguments]]

\* the tool_calls lists of a response: ids are distinct within one response
ToolCallLists ==
    UNION {{[i \in 1..n |-> ToolCall(base + i, f[i][1], f[i][2])] :
                f \in [1..n -> ToolNames \X ArgPayloads], base \in {10}} :
           n \in 0..MaxToolCalls}

\* choices[0] of a chat completion
Responses ==
    {[finish_reason |-> fr,
      message |-> [role |-> "assistant", content |-> c, tool_calls |-> <<>>]] :
        fr \in {"stop", "length"}, c \in Contents \cup {None}}
    \cup
    {[finish_reason |-> "tool_calls",
      message |-> [role |-> "assistant", content |-> None, tool_calls |-> tcs]] :
        tcs \in ToolCallLists}
    \cup
    {[finish_reason |-> "tool_calls",
      message |-> [role |-> "assistant", content |-> Answer, tool_calls |-> tcs]] :
        tcs \in {t \in ToolCallLists : Len(t) = 1}}

TextContent(t) == [type |-> "text", text |-> t]
ImageContent == [type |-> "image"]

Sunny == <<"s", "u", "n">>
UnknownTool == <<"u", "n", "k", "n", "o", "w", "n">>
Fault == <<"f", "a", "u", "l", "t">>

\* CallToolResult values the session may return for a call of `name`
ToolResults(name) ==
    IF name \notin {serverTools[i].name : i \in 1..Len(serverTools)}
    THEN {[isError |-> TRUE, content |-> <<TextContent(UnknownTool)>>]}
    ELSE {[isError |-> FALSE, content |-> <<TextContent(Sunny)>>],
          [isError |-> FALSE, content |-> <<TextContent(Sunny), TextContent(Fault)>>],
          [isError |-> TRUE, content |-> <<TextContent(Fault)>>],
          [isError |-> FALSE, content |-> <<>>],
          [isError |-> FALSE, content |-> <<ImageContent>>]}

NoProcess == [state |-> "none", command |-> "none", args |-> <<>>]
NoResponse == [finish_reason |-> "none",
               message |-> [role |-> "assistant", content |-> None,
                            tool_calls |-> <<>>]]
NoToolCall == ToolCall(0, "none", <<>>)
NoToolResult == [isError |-> FALSE, content |-> <<>>]

\* the pieces sanitizer inputs are concatenated from
Fragments == {OpenMarker, CloseMarker, <<"<", "t", "h">>, <<"i", "n", "k", ">">>,
              <<"a", "\n">>}

SanitizerInputs ==
    {Concat(f) : f \in UNION {[1..n -> Fragments] : n \in 0..MaxPieces}}

---------------------------------------------------------------------------
(* Initial states *)

InitWith(paths, start, toolsets, texts) ==
    /\ pc = start
    /\ server_script_path \in paths
    /\ error = "none"
    /\ exit_stack = <<>>
    /\ session = "none"
    /\ process = NoProcess
    /\ spawns = 0
    /\ releases = [stdio_client |-> 0, ClientSession |-> 0]
    /\ cleanup_calls = 0
    /\ serverTools \in toolsets
    /\ toolList = <<>>
    /\ inbound = 0
    /\ query = <<>>
    /\ messages = <<>>
    /\ response = NoResponse
    /\ tool_call = NoToolCall
    /\ toolResult = NoToolResult
    /\ calls = <<>>
    /\ modelCalls = <<>>
    /\ toolCalls = <<>>
    /\ result = None
    /\ printed = None
    /\ queries = 0
    /\ lastLine = <<>>
    /\ caught = FALSE
    /\ exitCause = "none"
    /\ san_in \in texts
    /\ san_out = None
    /\ san_prev = None
    /\ san_pass = 0

\* main has constructed the client (line 189) and enters the try block
Init == InitWith(ServerPaths, "connect", ToolSets, {<<>>})


---------------------------------------------------------------------------
(* Exceptions *)

Range(f) == {f[i] : i \in DOMAIN f}

Warning(e) == <<"#warning", e>>

\* An exception leaves the try block of main: the finally clause runs next.
RaiseToMainSkipsFinally(e) ==
    /\ error' = e
    /\ exitCause' = pc
    /\ pc' = "done"

RaiseToMain(e) ==
    /\ error' = e
    /\ exitCause' = pc
    /\ pc' = "finally"

\* An Exception raised inside an iteration of chat_loop reaches its except
\* clause.
RaiseInQuery(e) ==
    /\ error' = e
    /\ pc' = "except"

\* the points where main is suspended or blocked on the outside world
WaitingPcs == {"spawn", "enter_session", "initialize", "startup_list",
               "chat_input", "await_list", "await_model1", "await_tool",
               "await_model2"}

\* KeyboardInterrupt or CancelledError: a BaseException, which
\* `except Exception` does not catch.  It unwinds process_query and
\* chat_loop, whose locals are gone when main's finally clause runs.
Interrupt ==
    /\ pc \in WaitingPcs
    /\ RaiseToMain("Interrupt")
    /\ query' = <<>>
    /\ messages' = <<>>
    /\ response' = NoResponse
    /\ tool_call' = NoToolCall
    /\ toolResult' = NoToolResult
    /\ calls' = <<>>
    /\ modelCalls' = <<>>
    /\ toolCalls' = <<>>
    /\ result' = None
    /\ lastLine' = <<>>
    /\ UNCHANGED <<server_script_path, connVars, cleanup_calls, catalogVars,
                   printed, queries, caught, sanVars, inbound>>

---------------------------------------------------------------------------
(* connect_to_server *)

\* the suffix test without the dot
IsPythonNoDot(path) == EndsWith(path, <<"p", "y">>)

IsPython(path) == EndsWith(path, <<".", "p", "y">>)
IsJs(path) == EndsWith(path, <<".", "j", "s">>)

CommandFor(path) == IF IsPython(path) THEN "python" ELSE "node"

\* lines 55-64: the extension test and the server parameters
CheckExtension ==
    /\ pc = "connect"
    /\ \/ /\ ~(IsPython(server_script_path) \/ IsJs(server_script_path))
          /\ RaiseToMain("ValueError")
       \/ /\ IsPython(server_script_path) \/ IsJs(server_script_path)
          /\ pc' = "spawn"
          /\ UNCHANGED <<error, exitCause>>
    /\ UNCHANGED <<server_script_path, connVars, cleanup_calls, catalogVars,
                   queryVars, printed, queries, lastLine, caught,
                   sanVars, inbound>>

\* lines 67-70: stdio_client is entered on the exit stack and spawns the child
SpawnTransport ==
    /\ pc = "spawn"
    /\ \/ /\ process' = [state |-> "running",
                         command |-> CommandFor(server_script_path),
                         args |-> <<server_script_path>>]
          /\ spawns' = spawns + 1
          /\ exit_stack' = Append(exit_stack, "stdio_client")
          /\ pc' = "enter_session"
          /\ UNCHANGED <<error, exitCause>>
       \/ /\ RaiseToMain("SpawnError")
          /\ UNCHANGED <<process, spawns, exit_stack>>
    /\ UNCHANGED <<server_script_path, session, releases, cleanup_calls,
                   catalogVars, queryVars, printed, queries, lastLine, caught,
                   sanVars, inbound>>

\* lines 73-75: ClientSession is entered on the exit stack
EnterSession ==
    /\ pc = "enter_session"
    /\ exit_stack' = Append(exit_stack, "ClientSession")
    /\ session' = "entered"
    /\ pc' = "initialize"
    /\ UNCHANGED <<server_script_path, error, exitCause, process, spawns,
                   releases, cleanup_calls, catalogVars, queryVars, printed,
                   queries, lastLine, caught, sanVars, inbound>>

\* connect_to_server without line 76: the handshake is never made
InitializeSessionSkipped ==
    /\ pc = "initialize"
    /\ pc' = "startup_list"
    /\ UNCHANGED <<server_script_path, error, exitCause, connVars,
                   cleanup_calls, catalogVars, queryVars, printed, queries,
                   lastLine, caught, sanVars, inbound>>

\* line 76: the protocol handshake
InitializeSession ==
    /\ pc = "initialize"
    /\ \/ /\ session' = "initialized"
          /\ pc' = "startup_list"
          /\ UNCHANGED <<error, exitCause>>
       \/ /\ RaiseToMain("HandshakeError")
          /\ UNCHANGED session
    /\ UNCHANGED <<server_script_path, exit_stack, process, spawns, releases,
                   cleanup_calls, catalogVars, queryVars, printed, queries,
                   lastLine, caught, sanVars, inbound>>

\* lines 79-81: the tools are listed and their names printed; the listing
\* is a local of connect_to_server
StartupListTools ==
    /\ pc = "startup_list"
    /\ \/ /\ toolList' = serverTools
          /\ pc' = "chat_input"
          /\ UNCHANGED <<error, exitCause>>
       \/ /\ RaiseToMain("ProtocolError")
          /\ UNCHANGED toolList
    /\ UNCHANGED <<server_script_path, connVars, cleanup_calls, serverTools,
                   queryVars, printed, queries, lastLine, caught,
                   sanVars, inbound>>

---------------------------------------------------------------------------
(* cleanup and the finally clause of main *)

Occurrences(stack, c) == Cardinality({i \in DOMAIN stack : stack[i] = c})

\* AsyncExitStack.aclose() without popping the callbacks it runs
CleanupKeepsStack ==
    /\ cleanup_calls' = cleanup_calls + 1
    /\ releases' = [c \in DOMAIN releases |->
                        releases[c] + Occurrences(exit_stack, c)]
    /\ session' = IF "ClientSession" \in Range(exit_stack)
                  THEN "closed" ELSE session
    /\ process' = IF "stdio_client" \in Range(exit_stack)
                  THEN [process EXCEPT !.state = "terminated"] ELSE process
    /\ exit_stack' = exit_stack

\* cleanup: exit_stack.aclose() pops every entered context and exits it;
\* leaving ClientSession closes the session, leaving stdio_client ends the
\* child process and its streams
Cleanup ==
    /\ cleanup_calls' = cleanup_calls + 1
    /\ releases' = [c \in DOMAIN releases |->
                        releases[c] + Occurrences(exit_stack, c)]
    /\ session' = IF "ClientSession" \in Range(exit_stack)
                  THEN "closed" ELSE session
    /\ process' = IF "stdio_client" \in Range(exit_stack)
                  THEN [process EXCEPT !.state = "terminated"] ELSE process
    /\ exit_stack' = <<>>

\* lines 193-194
MainFinally ==
    /\ pc = "finally"
    /\ Cleanup
    /\ pc' = "done"
    /\ UNCHANGED <<server_script_path, error, exitCause, spawns, catalogVars,
                   queryVars, printed, queries, lastLine, caught,
                   sanVars, inbound>>

\* a caller invoking cleanup once more after main's own call
SecondCleanup ==
    /\ pc = "done"
    /\ cleanup_calls = 1
    /\ Cleanup
    /\ UNCHANGED <<pc, server_script_path, error, exitCause, spawns,
                   catalogVars, queryVars, printed, queries, lastLine, caught,
                   sanVars, inbound>>


---------------------------------------------------------------------------
(* chat_loop *)

UserMessage(q) == [role |-> "user", content |-> q]

ToolMessage(text, id) == [role |-> "tool", content |-> text, tool_call_id |-> id]

\* a chat.completions.create call: `tools` is read only when has_tools
ModelCall(msgs, has_tools, tools) ==
    [messages |-> msgs, has_tools |-> has_tools, tools |-> tools]

\* line 168 without lower(): the comparison is case-sensitive
IsQuitCaseSensitive(q) == q = Quit

\* line 168: the test that ends the loop
IsQuit(q) == Lower(q) = Quit

\* lines 165-169: input() returns the sentinel; break leaves the loop and
\* chat_loop returns into main's finally clause
ReadQuit ==
    /\ pc = "chat_input"
    /\ \E line \in Lines :
          /\ IsQuit(Strip(line))
          /\ lastLine' = line
    /\ exitCause' = pc
    /\ error' = "none"
    /\ pc' = "finally"
    /\ UNCHANGED <<server_script_path, connVars, cleanup_calls, catalogVars,
                   queryVars, printed, queries, caught, sanVars, inbound>>

\* lines 165-172 and 89-92 with a conversation kept across queries: the
\* answer printed for the previous line precedes the new user message
DispatchLineKeepsHistory ==
    /\ pc = "chat_input"
    /\ queries < MaxQueries
    /\ \E line \in Lines :
          /\ ~IsQuit(Strip(line))
          /\ lastLine' = line
          /\ query' = Strip(line)
          /\ messages' =
                (IF printed = None THEN <<>>
                 ELSE <<[role |-> "assistant", content |-> printed]>>)
                \o <<UserMessage(Strip(line))>>
    /\ queries' = queries + 1
    /\ response' = NoResponse
    /\ tool_call' = NoToolCall
    /\ toolResult' = NoToolResult
    /\ calls' = <<"list">>
    /\ modelCalls' = <<>>
    /\ toolCalls' = <<>>
    /\ result' = None
    /\ printed' = None
    /\ pc' = "await_list"
    /\ UNCHANGED <<server_script_path, error, exitCause, connVars,
                   cleanup_calls, catalogVars, caught, sanVars, inbound>>

\* lines 165-172 and 89-92: any other line starts process_query, which
\* builds its conversation and awaits the tool listing
DispatchLine ==
    /\ pc = "chat_input"
    /\ queries < MaxQueries
    /\ \E line \in Lines :
          /\ ~IsQuit(Strip(line))
          /\ lastLine' = line
          /\ query' = Strip(line)
          /\ messages' = <<UserMessage(Strip(line))>>
    /\ queries' = queries + 1
    /\ response' = NoResponse
    /\ tool_call' = NoToolCall
    /\ toolResult' = NoToolResult
    /\ calls' = <<"list">>
    /\ modelCalls' = <<>>
    /\ toolCalls' = <<>>
    /\ result' = None
    /\ printed' = None
    /\ pc' = "await_list"
    /\ UNCHANGED <<server_script_path, error, exitCause, connVars,
                   cleanup_calls, catalogVars, caught, sanVars, inbound>>

\* line 165 with input() read outside the try block: its exception leaves
\* chat_loop
InputFailsEscapes ==
    /\ pc = "chat_input"
    /\ RaiseToMain("EOFError")
    /\ printed' = None
    /\ UNCHANGED <<server_script_path, connVars, cleanup_calls, catalogVars,
                   queryVars, queries, lastLine, caught, sanVars, inbound>>

\* line 165: input() itself raises an Exception (EOFError at end of input)
InputFails ==
    /\ pc = "chat_input"
    /\ RaiseInQuery("EOFError")
    /\ printed' = None
    /\ UNCHANGED <<server_script_path, exitCause, connVars, cleanup_calls,
                   catalogVars, queryVars, queries, lastLine, caught,
                   sanVars, inbound>>

\* process_query's locals, and the loop's `query`, once the iteration is over
IterationOver ==
    /\ query' = <<>>
    /\ messages' = <<>>
    /\ response' = NoResponse
    /\ tool_call' = NoToolCall
    /\ toolResult' = NoToolResult
    /\ calls' = <<>>
    /\ modelCalls' = <<>>
    /\ toolCalls' = <<>>
    /\ result' = None
    /\ lastLine' = <<>>

\* line 175: the answer is printed and the loop returns to input()
PrintResponse ==
    /\ pc = "print_response"
    /\ printed' = result
    /\ pc' = "chat_input"
    /\ IterationOver
    /\ UNCHANGED <<server_script_path, error, exitCause, connVars,
                   cleanup_calls, catalogVars, queries, caught,
                   sanVars, inbound>>

\* lines 176-177 with the handler leaving the loop
HandleExceptionBreaks ==
    /\ pc = "except"
    /\ printed' = Warning(error)
    /\ caught' = TRUE
    /\ exitCause' = pc
    /\ pc' = "finally"
    /\ IterationOver
    /\ UNCHANGED <<server_script_path, error, connVars, cleanup_calls,
                   catalogVars, queries, sanVars, inbound>>

\* lines 176-177: the except clause prints the error; the loop goes on to
\* the next input()
HandleException ==
    /\ pc = "except"
    /\ printed' = Warning(error)
    /\ caught' = TRUE
    /\ pc' = "chat_input"
    /\ IterationOver
    /\ UNCHANGED <<server_script_path, error, exitCause, connVars,
                   cleanup_calls, catalogVars, queries, sanVars, inbound>>

\* the server's tool set changes while the client sits at the prompt
ServerToolsChange ==
    /\ pc = "chat_input"
    /\ serverTools' \in ToolSets \ {serverTools}
    /\ UNCHANGED <<toolList, pc, server_script_path, error, exitCause, connVars,
                   cleanup_calls, queryVars, printed, queries, lastLine,
                   caught, sanVars, inbound>>

---------------------------------------------------------------------------
(* process_query *)

\* lines 92-110 with the function specs built from the listing fetched
\* earlier (at startup or by the previous query) instead of a fresh one
ListToolsReplyCached ==
    /\ pc = "await_list"
    /\ modelCalls' = Append(modelCalls,
                        ModelCall(messages, TRUE, BuildFunctionSpecs(toolList)))
    /\ calls' = Append(calls, "model")
    /\ pc' = "await_model1"
    /\ UNCHANGED <<server_script_path, error, exitCause, connVars,
                   cleanup_calls, catalogVars, query, messages,
                   response, tool_call, toolResult, toolCalls, result, printed,
                   queries, lastLine, caught, sanVars, inbound>>

\* lines 92-110: the listing arrives, the function specs are built from it
\* and the first model call is made
ListToolsReply ==
    /\ pc = "await_list"
    /\ toolList' = serverTools
    /\ modelCalls' = Append(modelCalls,
                        ModelCall(messages, TRUE, BuildFunctionSpecs(toolList')))
    /\ calls' = Append(calls, "model")
    /\ pc' = "await_model1"
    /\ UNCHANGED <<server_script_path, error, exitCause, connVars,
                   cleanup_calls, serverTools, query, messages, response,
                   tool_call, toolResult, toolCalls, result, printed, queries,
                   lastLine, caught, sanVars, inbound>>

\* line 92: the listing fails (malformed reply, closed channel)
ListToolsFails ==
    /\ pc = "await_list"
    /\ RaiseInQuery("ProtocolError")
    /\ UNCHANGED <<server_script_path, exitCause, connVars, cleanup_calls,
                   catalogVars, queryVars, printed, queries, lastLine, caught,
                   sanVars, inbound>>

\* lines 113-115, 154: a response without the tool-call finish reason is
\* answered with its message content as it is
Model1Plain ==
    /\ pc = "await_model1"
    /\ \E r \in Responses :
          /\ r.finish_reason # "tool_calls"
          /\ response' = r
          /\ result' = r.message.content
    /\ pc' = "print_response"
    /\ UNCHANGED <<server_script_path, error, exitCause, connVars,
                   cleanup_calls, catalogVars, query, messages, tool_call,
                   toolResult, calls, modelCalls, toolCalls, printed, queries,
                   lastLine, caught, sanVars, inbound>>

\* lines 115-122 taking the last proposed call instead of the first
Model1ToolCallLast ==
    /\ pc = "await_model1"
    /\ \E r \in Responses :
          /\ r.finish_reason = "tool_calls"
          /\ r.message.tool_calls # <<>>
          /\ LET last == r.message.tool_calls[Len(r.message.tool_calls)] IN
                /\ JsonParses(last.function.arguments)
                /\ response' = r
                /\ tool_call' = last
                /\ toolCalls' = Append(toolCalls,
                      [name |-> last.function.name,
                       arguments |-> JsonLoads(last.function.arguments),
                       id |-> last.id])
    /\ calls' = Append(calls, "tool")
    /\ pc' = "await_tool"
    /\ UNCHANGED <<server_script_path, error, exitCause, connVars,
                   cleanup_calls, catalogVars, query, messages, toolResult,
                   modelCalls, result, printed, queries, lastLine, caught,
                   sanVars, inbound>>

\* lines 115-122: the first proposed call is taken, its arguments parsed and
\* call_tool sent to the session
Model1ToolCall ==
    /\ pc = "await_model1"
    /\ \E r \in Responses :
          /\ r.finish_reason = "tool_calls"
          /\ r.message.tool_calls # <<>>
          /\ JsonParses(r.message.tool_calls[1].function.arguments)
          /\ response' = r
          /\ tool_call' = r.message.tool_calls[1]
          /\ toolCalls' = Append(toolCalls,
                [name |-> r.message.tool_calls[1].function.name,
                 arguments |-> JsonLoads(r.message.tool_calls[1].function.arguments),
                 id |-> r.message.tool_calls[1].id])
    /\ calls' = Append(calls, "tool")
    /\ pc' = "await_tool"
    /\ UNCHANGED <<server_script_path, error, exitCause, connVars,
                   cleanup_calls, catalogVars, query, messages, toolResult,
                   modelCalls, result, printed, queries, lastLine, caught,
                   sanVars, inbound>>

\* lines 117-122 with a parse failure replaced by an empty argument object
Model1BadToolCallFallsBack ==
    /\ pc = "await_model1"
    /\ \E r \in Responses :
          /\ r.finish_reason = "tool_calls"
          /\ response' = r
          /\ \/ /\ r.message.tool_calls = <<>>
                /\ RaiseInQuery("TypeError")
                /\ UNCHANGED <<tool_call, toolCalls, calls>>
             \/ /\ r.message.tool_calls # <<>>
                /\ ~JsonParses(r.message.tool_calls[1].function.arguments)
                /\ tool_call' = r.message.tool_calls[1]
                /\ toolCalls' = Append(toolCalls,
                      [name |-> r.message.tool_calls[1].function.name,
                       arguments |-> {},
                       id |-> r.message.tool_calls[1].id])
                /\ calls' = Append(calls, "tool")
                /\ pc' = "await_tool"
                /\ UNCHANGED error
    /\ UNCHANGED <<server_script_path, exitCause, connVars, cleanup_calls,
                   catalogVars, query, messages, toolResult, modelCalls,
                   result, printed, queries, lastLine, caught,
                   sanVars, inbound>>

\* lines 117-119: tool_calls is missing or empty, or json.loads raises
Model1BadToolCall ==
    /\ pc = "await_model1"
    /\ \E r \in Responses :
          /\ r.finish_reason = "tool_calls"
          /\ response' = r
          /\ \/ /\ r.message.tool_calls = <<>>
                /\ RaiseInQuery("TypeError")
             \/ /\ r.message.tool_calls # <<>>
                /\ ~JsonParses(r.message.tool_calls[1].function.arguments)
                /\ RaiseInQuery("JSONDecodeError")
    /\ UNCHANGED <<server_script_path, exitCause, connVars, cleanup_calls,
                   catalogVars, query, messages, tool_call, toolResult, calls,
                   modelCalls, toolCalls, result, printed, queries, lastLine,
                   caught, sanVars, inbound>>

\* lines 106-110 and 138-141: the model API call raises
ModelCallFails ==
    /\ pc \in {"await_model1", "await_model2"}
    /\ RaiseInQuery("APIError")
    /\ UNCHANGED <<server_script_path, exitCause, connVars, cleanup_calls,
                   catalogVars, queryVars, printed, queries, lastLine, caught,
                   sanVars, inbound>>

\* the CallToolResult has a first content item that carries text
HasText(r) == r.content # <<>> /\ "text" \in DOMAIN r.content[1]

\* lines 122-141 with the second model call given the function specs again
ToolReplyWithTools ==
    /\ pc = "await_tool"
    /\ \E r \in ToolResults(tool_call.function.name) :
          /\ HasText(r)
          /\ toolResult' = r
          /\ messages' = messages \o
                <<response.message,
                  ToolMessage(r.content[1].text, tool_call.id)>>
          /\ modelCalls' = Append(modelCalls,
                ModelCall(messages', TRUE, modelCalls[1].tools))
    /\ calls' = Append(calls, "model")
    /\ pc' = "await_model2"
    /\ UNCHANGED <<server_script_path, error, exitCause, connVars,
                   cleanup_calls, catalogVars, query, response, tool_call,
                   toolCalls, result, printed, queries, lastLine, caught,
                   sanVars, inbound>>

\* lines 128-135 with the two appends swapped and the last proposed id
ToolReplyMisordered ==
    /\ pc = "await_tool"
    /\ \E r \in ToolResults(tool_call.function.name) :
          /\ HasText(r)
          /\ toolResult' = r
          /\ messages' = messages \o
                <<ToolMessage(r.content[1].text,
                     response.message.tool_calls[Len(response.message.tool_calls)].id),
                  response.message>>
          /\ modelCalls' = Append(modelCalls, ModelCall(messages', FALSE, <<>>))
    /\ calls' = Append(calls, "model")
    /\ pc' = "await_model2"
    /\ UNCHANGED <<server_script_path, error, exitCause, connVars,
                   cleanup_calls, catalogVars, query, response, tool_call,
                   toolCalls, result, printed, queries, lastLine, caught,
                   sanVars, inbound>>

\* lines 122-141: the tool result arrives; the assistant message and the
\* tool message are appended and the second model call is made, without tools
ToolReply ==
    /\ pc = "await_tool"
    /\ \E r \in ToolResults(tool_call.function.name) :
          /\ HasText(r)
          /\ toolResult' = r
          /\ messages' = messages \o
                <<response.message,
                  ToolMessage(r.content[1].text, tool_call.id)>>
          /\ modelCalls' = Append(modelCalls, ModelCall(messages', FALSE, <<>>))
    /\ calls' = Append(calls, "model")
    /\ pc' = "await_model2"
    /\ UNCHANGED <<server_script_path, error, exitCause, connVars,
                   cleanup_calls, catalogVars, query, response, tool_call,
                   toolCalls, result, printed, queries, lastLine, caught,
                   sanVars, inbound>>

\* lines 122-124: call_tool raises, or the result has no first text item
ToolReplyFails ==
    /\ pc = "await_tool"
    /\ \/ RaiseInQuery("McpError")
       \/ /\ \E r \in ToolResults(tool_call.function.name) : r.content = <<>>
          /\ RaiseInQuery("IndexError")
       \/ /\ \E r \in ToolResults(tool_call.function.name) :
                r.content # <<>> /\ ~HasText(r)
          /\ RaiseInQuery("AttributeError")
    /\ UNCHANGED <<server_script_path, exitCause, connVars, cleanup_calls,
                   catalogVars, queryVars, printed, queries, lastLine, caught,
                   sanVars, inbound>>

\* lines 138-152 as an agent loop: a second response that again asks for a
\* tool has its first call executed too
Model2ReplyLoops ==
    /\ pc = "await_model2"
    /\ \E r \in Responses :
          \/ /\ r.finish_reason = "tool_calls"
             /\ r.message.tool_calls # <<>>
             /\ JsonParses(r.message.tool_calls[1].function.arguments)
             /\ tool_call' = r.message.tool_calls[1]
             /\ toolCalls' = Append(toolCalls,
                   [name |-> r.message.tool_calls[1].function.name,
                    arguments |-> JsonLoads(r.message.tool_calls[1].function.arguments),
                    id |-> r.message.tool_calls[1].id])
             /\ calls' = Append(calls, "tool")
             /\ pc' = "await_tool"
             /\ UNCHANGED result
          \/ /\ r.message.content # None
             /\ result' = RmThink(r.message.content)
             /\ pc' = "print_response"
             /\ UNCHANGED <<tool_call, toolCalls, calls>>
    /\ UNCHANGED <<server_script_path, error, exitCause, connVars,
                   cleanup_calls, catalogVars, query, messages, response,
                   toolResult, modelCalls, printed, queries, lastLine, caught,
                   sanVars, inbound>>

\* lines 144-152: whatever its finish reason, the second response's content
\* is stripped of its reasoning spans and returned
Model2Reply ==
    /\ pc = "await_model2"
    /\ \E content \in {r.message.content : r \in Responses} :
          /\ content # None
          /\ result' = RmThink(content)
    /\ pc' = "print_response"
    /\ UNCHANGED <<server_script_path, error, exitCause, connVars,
                   cleanup_calls, catalogVars, query, messages, response,
                   tool_call, toolResult, calls, modelCalls, toolCalls, printed,
                   queries, lastLine, caught, sanVars, inbound>>

\* lines 144-149: re.sub raises TypeError on a None content
Model2NoContent ==
    /\ pc = "await_model2"
    /\ None \in {r.message.content : r \in Responses}
    /\ RaiseInQuery("TypeError")
    /\ UNCHANGED <<server_script_path, exitCause, connVars, cleanup_calls,
                   catalogVars, queryVars, printed, queries, lastLine, caught,
                   sanVars, inbound>>

---------------------------------------------------------------------------
(* The event loop: asyncio.run(main()) runs main and the transport's tasks
   on one thread *)

\* the positions where main is suspended in an await (lines 67, 73, 76, 79,
\* 92, 122, 194): the event loop runs its other tasks meanwhile.  At the
\* other waiting positions main sits in a synchronous call that returns
\* only with its result: input() (line 165) and chat.completions.create of
\* the synchronous OpenAI client (lines 106 and 138, called without await).
SuspendedPcs == {"spawn", "enter_session", "initialize", "startup_list",
                 "await_list", "await_tool", "finally"}

\* the child process, scheduled by the operating system, writes a message
\* (a notification, a log record) to its end of the channel
ServerWrites ==
    /\ process.state = "running"
    /\ inbound < MaxInbound
    /\ inbound' = inbound + 1
    /\ UNCHANGED <<pc, server_script_path, error, exitCause, connVars,
                   cleanup_calls, catalogVars, queryVars, printed, queries,
                   lastLine, caught, sanVars>>

\* the reader task of the session takes one message off the channel; as a
\* task of the event loop it runs only while main is suspended in an await
ReaderStep ==
    /\ session \in {"entered", "initialized"}
    /\ inbound > 0
    /\ pc \in SuspendedPcs
    /\ inbound' = inbound - 1
    /\ UNCHANGED <<pc, server_script_path, error, exitCause, connVars,
                   cleanup_calls, catalogVars, queryVars, printed, queries,
                   lastLine, caught, sanVars>>

---------------------------------------------------------------------------
(* Specifications *)

ConnectNext ==
    \/ CheckExtension
    \/ SpawnTransport
    \/ EnterSession
    \/ InitializeSession
    \/ StartupListTools

QueryNext ==
    \/ ReadQuit
    \/ DispatchLine
    \/ InputFails
    \/ PrintResponse
    \/ HandleException
    \/ ServerToolsChange
    \/ ListToolsReply
    \/ ListToolsFails
    \/ Model1Plain
    \/ Model1ToolCall
    \/ Model1BadToolCall
    \/ ModelCallFails
    \/ ToolReply
    \/ ToolReplyFails
    \/ Model2Reply
    \/ Model2NoContent

Next == ConnectNext \/ QueryNext \/ Interrupt \/ MainFinally

\* a whole run of main
Spec == Init /\ [][Next]_vars


\* the same run, with the finally clause of main scheduled once it is reached
SpecFair == Spec /\ WF_vars(MainFinally)

\* a run of main after which cleanup is called a second time
NextTwice == Next \/ SecondCleanup

SpecTwice == Init /\ [][NextTwice]_vars

\* a whole run of main together with the server's writes and the reader
\* task of the session
NextLoop == Next \/ ServerWrites \/ ReaderStep

SpecLoop == Init /\ [][NextLoop]_vars

\* connect_to_server on every path of at most MaxPathLen characters
InitConnect == InitWith(AllPaths, "connect", {<<WeatherTool>>}, {<<>>})

NextConnect == ConnectNext \/ Interrupt \/ MainFinally

SpecConnect == InitConnect /\ [][NextConnect]_vars

\* the sanitizer applied to a text and then to its own output
SanitizePass ==
    /\ pc = "sanitize"
    /\ san_pass < 2
    /\ san_prev' = san_out
    /\ san_out' = RmThink(IF san_pass = 0 THEN san_in ELSE san_out)
    /\ san_pass' = san_pass + 1
    /\ UNCHANGED <<pc, server_script_path, error, exitCause, connVars,
                   cleanup_calls, catalogVars, queryVars, printed, queries,
                   lastLine, caught, san_in, inbound>>

InitSanitize == InitWith({<<>>}, "sanitize", {<<>>}, SanitizerInputs)

SpecSanitize == InitSanitize /\ [][SanitizePass]_vars

---------------------------------------------------------------------------
(* Claims *)

Count(seq, x) == Cardinality({i \in DOMAIN seq : seq[i] = x})

\* the calls of a query other than the tool listing
ModelAndToolCalls == SelectSeq(calls, LAMBDA c : c # "list")

IsPrefix(a, b) == Len(a) <= Len(b) /\ SubSeq(b, 1, Len(a)) = a

\* C1: a query whose first response has a normal finish reason makes one
\* model call and no tool call, and returns that response's content with
\* every <think>...</think> span removed.
C1_PlainAnswerSanitized ==
    (pc = "print_response" /\ response.finish_reason # "tool_calls") =>
        /\ ModelAndToolCalls = <<"model">>
        /\ toolCalls = <<>>
        /\ result = RmThink(response.message.content)

\* C2: on the tool path the calls are model call, tool call, model call, in
\* that order: one call_tool, two model calls, never a third model call or
\* a second tool call.
C2_ToolPathCalls ==
    /\ IsPrefix(ModelAndToolCalls, <<"model", "tool", "model">>)
    /\ Len(modelCalls) = Count(calls, "model")
    /\ Len(toolCalls) = Count(calls, "tool")
    /\ (pc = "print_response" /\ response.finish_reason = "tool_calls") =>
            ModelAndToolCalls = <<"model", "tool", "model">>

C2_Witness ==
    /\ pc = "print_response"
    /\ response.finish_reason = "tool_calls"
    /\ result # None

\* C3: the second model call carries exactly the user message, the
\* assistant message that requested the tool and one tool message with the
\* tool's text and the id of the executed call; in every conversation sent,
\* a tool message directly follows the assistant message that requested it.
C3_ToolMessageFollowsRequest ==
    /\ Len(modelCalls) = 2 =>
          modelCalls[2].messages =
              <<UserMessage(query),
                response.message,
                ToolMessage(toolResult.content[1].text, toolCalls[1].id)>>
    /\ \A c \in DOMAIN modelCalls :
          \A i \in DOMAIN modelCalls[c].messages :
             LET m == modelCalls[c].messages
             IN  m[i].role = "tool" =>
                    /\ i > 1
                    /\ m[i - 1].role = "assistant"
                    /\ \E k \in DOMAIN m[i - 1].tool_calls :
                          m[i - 1].tool_calls[k].id = m[i].tool_call_id

C3_Witness ==
    /\ Len(modelCalls) = 2
    /\ Len(response.message.tool_calls) = 2
    /\ modelCalls[2].messages[3].tool_call_id = response.message.tool_calls[1].id

\* the positions of main inside its try block
TryPcs == WaitingPcs \cup {"connect", "print_response", "except"}

TornDown ==
    /\ pc = "done"
    /\ cleanup_calls = 1
    /\ exit_stack = <<>>
    /\ session \in {"none", "closed"}
    /\ process.state \in {"none", "terminated"}

\* C4: however the try block of main is left (sentinel, error in
\* connect_to_server, interrupt while waiting), control passes to the
\* finally clause, and cleanup is then eventually executed.
C4_TeardownOnEveryExit ==
    /\ [][(pc \in TryPcs /\ pc' \notin TryPcs) => pc' = "finally"]_vars
    /\ (pc = "finally") ~> TornDown

C4_Witness ==
    /\ TornDown
    /\ error = "Interrupt"
    /\ exitCause = "await_tool"
    /\ process.state = "terminated"

SessionReady ==
    /\ session = "initialized"
    /\ process.state = "running"
    /\ exit_stack = <<"stdio_client", "ClientSession">>
    /\ releases = [stdio_client |-> 0, ClientSession |-> 0]
    /\ cleanup_calls = 0

\* C5: a per-query error is caught and reported; the loop returns to the
\* prompt with the session untouched, and the next line is dispatched as a
\* fresh query.
C5_PerQueryErrorsContained ==
    /\ [][pc = "except" =>
            /\ pc' = "chat_input"
            /\ printed' = Warning(error)
            /\ UNCHANGED <<connVars, cleanup_calls>>]_vars
    /\ [](pc \in {"chat_input", "except"} => SessionReady)
    /\ [](pc = "await_model1" =>
            modelCalls = <<ModelCall(<<UserMessage(Strip(lastLine))>>, TRUE,
                                     BuildFunctionSpecs(serverTools))>>)

C5_Witness ==
    /\ pc = "await_model1"
    /\ queries = 2
    /\ error = "JSONDecodeError"
    /\ caught

\* C6: a path ending in neither .py nor .js makes connect_to_server raise
\* before anything is spawned, opened or created; .py selects python and
\* .js selects node, with the path as the single argument.
C6_ExtensionGate ==
    LET py == EndsWith(server_script_path, <<".", "p", "y">>)
        js == EndsWith(server_script_path, <<".", "j", "s">>)
    IN  /\ ~(py \/ js) =>
              /\ spawns = 0
              /\ process = NoProcess
              /\ exit_stack = <<>>
              /\ session = "none"
              /\ pc # "connect" => error = "ValueError" /\ exitCause = "connect"
        /\ (py /\ spawns > 0) =>
              process.command = "python" /\ process.args = <<server_script_path>>
        /\ (js /\ spawns > 0) =>
              process.command = "node" /\ process.args = <<server_script_path>>
        /\ (py \/ js) => error # "ValueError"

C6_Witness ==
    /\ pc = "done"
    /\ error = "ValueError"
    /\ EndsWith(server_script_path, <<"p", "y">>)
    /\ spawns = 0

\* C7: a second cleanup after the first changes nothing: no error, nothing
\* released again, the session and the process as the first call left them.
C7_CleanupIdempotent ==
    [][(cleanup_calls = 1 /\ cleanup_calls' = 2) =>
            /\ UNCHANGED <<exit_stack, session, process, releases, error, pc>>
            /\ \A c \in DOMAIN releases : releases'[c] <= 1]_vars

C7_Witness ==
    /\ cleanup_calls = 2
    /\ session = "closed"
    /\ process.state = "terminated"
    /\ releases = [stdio_client |-> 1, ClientSession |-> 1]

\* C8: the sanitizer applied to its own output returns that output.
C8_SanitizeIdempotent ==
    san_pass = 2 => san_out = san_prev

HasPair(s) ==
    \E i, j \in 1..Len(s) :
        /\ StartsAt(s, i, OpenMarker)
        /\ StartsAt(s, j, CloseMarker)
        /\ j >= i + Len(OpenMarker)

\* <<i, j>>: a start marker at i and the nearest end marker after it at j
NearestSpans(s) ==
    LET starts == {i \in 1..Len(s) : StartsAt(s, i, OpenMarker)}
        ends == {j \in 1..Len(s) : StartsAt(s, j, CloseMarker)}
    IN  {p \in starts \X ends :
            /\ p[2] >= p[1] + Len(OpenMarker)
            /\ \A k \in ends : k >= p[1] + Len(OpenMarker) => p[2] <= k}

SpanPositions(p) == p[1]..(p[2] + Len(CloseMarker) - 1)

RECURSIVE KeepOutside(_, _, _)
KeepOutside(s, i, covered) ==
    IF i > Len(s) THEN <<>>
    ELSE (IF i \in covered THEN <<>> ELSE <<s[i]>>)
            \o KeepOutside(s, i + 1, covered)

\* the text the last pass was applied to
SanitizedText == IF san_pass = 1 THEN san_in ELSE san_prev

\* C9: text without a complete start...end pair is returned unchanged; in
\* text with pairs each removed span runs from a start marker to the
\* nearest following end marker, the spans do not overlap, no such span is
\* left standing, and the text outside them is kept in order.
C9_SanitizeRemovesNearestSpans ==
    san_pass >= 1 =>
        LET text == SanitizedText
            spans == NearestSpans(text)
        IN  /\ ~HasPair(text) => san_out = text
            /\ \E S \in SUBSET spans :
                  /\ \A a, b \in S :
                        a # b => SpanPositions(a) \cap SpanPositions(b) = {}
                  /\ \A c \in spans \ S :
                        \E a \in S : SpanPositions(a) \cap SpanPositions(c) # {}
                  /\ san_out = KeepOutside(text, 1,
                                           UNION {SpanPositions(a) : a \in S})

C9_Witness ==
    /\ san_pass = 1
    /\ Cardinality(NearestSpans(san_in)) = 2
    /\ san_out # san_in
    /\ san_out # <<>>
    /\ \E i \in 1..Len(san_out) : StartsAt(san_out, i, CloseMarker)

\* C10: the function specs sent to the model follow the listing entry by
\* entry: same length and order, name and description copied, and the input
\* schema in the member the model API reads as the parameter schema.
C10_FunctionSpecsFollowListing ==
    pc = "await_model1" =>
        LET sent == modelCalls[1].tools
        IN  /\ modelCalls[1].has_tools
            /\ Len(sent) = Len(serverTools)
            /\ \A i \in 1..Len(serverTools) :
                  /\ sent[i].function.name = serverTools[i].name
                  /\ sent[i].function.description = serverTools[i].description
                  /\ ApiParameterSchema(sent[i]) = serverTools[i].inputSchema

\* the messages of the tool role in the query's conversation
ToolMessages == SelectSeq(messages, LAMBDA m : m.role = "tool")

\* C11: when the tool-call response proposes several tool calls, only the
\* first one is executed: the name and arguments passed to call_tool and the
\* tool_call_id of the tool-role message are those of the first proposed
\* call, and no other proposed call is sent to the session in that query.
C11_OnlyFirstToolCallExecuted ==
    (response.finish_reason = "tool_calls" /\ toolCalls # <<>>) =>
        LET first == response.message.tool_calls[1] IN
          /\ Len(toolCalls) = 1
          /\ Count(calls, "tool") = 1
          /\ toolCalls[1].name = first.function.name
          /\ toolCalls[1].arguments = JsonLoads(first.function.arguments)
          /\ toolCalls[1].id = first.id
          /\ \A i \in DOMAIN ToolMessages :
                ToolMessages[i].tool_call_id = first.id

\* two different calls were proposed and the tool message has been appended
C11_Witness ==
    /\ pc = "await_model2"
    /\ Len(response.message.tool_calls) = 2
    /\ response.message.tool_calls[1].function
           # response.message.tool_calls[2].function
    /\ Len(ToolMessages) = 1

\* an argument payload cut off before its value: json.loads rejects it
TruncatedPayload == <<"{", "city", ":">>

\* the first proposed call of the current response carries such a payload
FirstArgumentsUnparsable ==
    /\ response.finish_reason = "tool_calls"
    /\ response.message.tool_calls # <<>>
    /\ response.message.tool_calls[1].function.arguments = TruncatedPayload

\* C12: if the argument payload of the first proposed tool call cannot be
\* parsed, the query ends in a query-level error with no call_tool sent and
\* no second model call: the parse is not retried and the model is not asked
\* again.
C12_UnparsableArgumentsEndQuery ==
    FirstArgumentsUnparsable =>
        /\ pc = "except"
        /\ error = "JSONDecodeError"
        /\ toolCalls = <<>>
        /\ calls = <<"list", "model">>
        /\ Len(modelCalls) = 1
        /\ messages = <<UserMessage(query)>>

\* the parse failed although a second, well-formed call was proposed too
C12_Witness ==
    /\ FirstArgumentsUnparsable
    /\ Len(response.message.tool_calls) = 2
    /\ JsonParses(response.message.tool_calls[2].function.arguments)
    /\ pc = "except"

\* the tool invocation of the current query faulted: the result reports an
\* error (unknown tool, execution fault), call_tool raised, or the result
\* has no first text item
ToolInvocationFaulted ==
    \/ toolResult.isError
    \/ /\ pc = "except"
       /\ Count(calls, "tool") = 1
       /\ error \in {"McpError", "IndexError", "AttributeError"}

\* C13: if the tool invocation faults (unknown tool, execution fault
\* reported by the server, malformed reply or no textual content), the query
\* ends as a query-level failure: call_tool is not retried, no other tool is
\* tried, no tool-role message is added to the conversation and the second
\* model call is never made.
C13_ToolFaultEndsQuery ==
    ToolInvocationFaulted =>
        /\ pc = "except"
        /\ Count(calls, "tool") = 1
        /\ Len(toolCalls) = 1
        /\ ToolMessages = <<>>
        /\ Len(modelCalls) = 1

\* the names of the functions a model call offers
OfferedNames(call) ==
    IF call.has_tools
    THEN [i \in DOMAIN call.tools |-> call.tools[i].function.name]
    ELSE <<>>

\* C14: in every query the first model call carries the function specs
\* built from the query's tool listing, and the second model call, made on
\* the tool path only, carries no function specs at all.
C14_ToolsOnFirstCallOnly ==
    /\ Len(modelCalls) <= 2
    /\ Len(modelCalls) >= 1 =>
          /\ modelCalls[1].has_tools
          /\ Len(modelCalls[1].tools) = Len(serverTools)
          /\ OfferedNames(modelCalls[1])
                = [i \in DOMAIN serverTools |-> serverTools[i].name]
          /\ \A i \in DOMAIN modelCalls[1].tools :
                modelCalls[1].tools[i].type = "function"
    /\ Len(modelCalls) = 2 =>
          /\ Count(calls, "tool") = 1
          /\ ~modelCalls[2].has_tools
          /\ OfferedNames(modelCalls[2]) = <<>>

\* both model calls of a tool-path query were made and the listing was not
\* empty
C14_Witness ==
    /\ Len(modelCalls) = 2
    /\ Len(modelCalls[1].tools) = 2
    /\ pc = "await_model2"

\* the positions inside connect_to_server
ConnectPcs == {"connect", "spawn", "enter_session", "initialize",
               "startup_list"}

\* a list_tools or call_tool request is outstanding on the session
SessionRequestOutstanding == pc \in {"startup_list", "await_list", "await_tool"}

\* C15: a tool listing or tool invocation is sent to the session only while
\* it is initialized (transport opened, handshake completed, not yet
\* closed); a client has at most one live session; and no query is
\* dispatched when connect_to_server did not complete.
C15_SessionUsedOnlyWhenInitialized ==
    /\ SessionRequestOutstanding =>
          /\ session = "initialized"
          /\ process.state = "running"
          /\ "ClientSession" \in Range(exit_stack)
          /\ cleanup_calls = 0
    /\ calls # <<>> => session = "initialized"
    /\ spawns <= 1
    /\ Occurrences(exit_stack, "ClientSession") <= 1
    /\ Occurrences(exit_stack, "stdio_client") <= 1
    /\ session \in {"entered", "initialized"} => process.state = "running"
    /\ exitCause \in ConnectPcs => (queries = 0 /\ calls = <<>>)
    /\ queries > 0 => session \in {"initialized", "closed"}

\* a call_tool is outstanding in a query that follows a failed one
C15_Witness ==
    /\ pc = "await_tool"
    /\ caught
    /\ queries = 2
    /\ session = "initialized"

\* C16: every dispatched query performs exactly one tool listing, before
\* its first model call, and the function specs of that call are built from
\* this listing, never from the one fetched at startup or by an earlier
\* query: a change of the server's tool set between two queries shows in
\* the second query's function specs.
C16_FreshListingPerQuery ==
    /\ [](calls # <<>> => (calls[1] = "list" /\ Count(calls, "list") = 1))
    /\ [](modelCalls # <<>> =>
            /\ Len(calls) >= 2
            /\ calls[2] = "model"
            /\ modelCalls[1].tools = BuildFunctionSpecs(serverTools))
    /\ [][(pc = "await_list" /\ pc' = "await_model1") =>
            /\ toolList' = serverTools
            /\ modelCalls' = <<ModelCall(messages, TRUE,
                                         BuildFunctionSpecs(serverTools))>>]_vars

\* the second query's listing is outstanding and the server's tool set is
\* no longer the non-empty one the client listed last
C16_Witness ==
    /\ pc = "await_list"
    /\ queries = 2
    /\ toolList # <<>>
    /\ serverTools # <<>>
    /\ toolList # serverTools

\* the positions inside process_query
QueryPcs == {"await_list", "await_model1", "await_tool", "await_model2"}

\* C17: the conversation sent in the first model call of each query is
\* exactly one user-role message whose content is the query text passed to
\* process_query; no message of an earlier query appears in a later query's
\* conversation.
C17_ConversationStartsFresh ==
    /\ pc \in QueryPcs =>
          /\ query = Strip(lastLine)
          /\ messages # <<>>
          /\ messages[1] = [role |-> "user", content |-> query]
          /\ Count([i \in DOMAIN messages |-> messages[i].role], "user") = 1
          /\ Len(messages) \in {1, 3}
          /\ Len(messages) = 3 =>
                /\ pc = "await_model2"
                /\ messages[2] = response.message
                /\ messages[3].role = "tool"
                /\ messages[3].tool_call_id = tool_call.id
    /\ modelCalls # <<>> =>
          modelCalls[1].messages = <<[role |-> "user", content |-> query]>>

\* the second query is on its tool path after the first one was answered
C17_Witness ==
    /\ pc = "await_model2"
    /\ queries = 2
    /\ ~caught
    /\ Len(messages) = 3
    /\ query = <<"H", "i">>

\* the word "quit" in any mix of upper and lower case
QuitWord(w) ==
    /\ Len(w) = 4
    /\ w[1] \in {"q", "Q"}
    /\ w[2] \in {"u", "U"}
    /\ w[3] \in {"i", "I"}
    /\ w[4] \in {"t", "T"}

\* such a word with nothing but whitespace before and after it
PaddedQuitWord(line) ==
    \E i \in 1..Len(line) :
       /\ i + 3 <= Len(line)
       /\ QuitWord(SubSeq(line, i, i + 3))
       /\ \A k \in (1..Len(line)) \ (i..(i + 3)) :
             line[k] \in {" ", "\t", "\n", "\r"}

\* a step of chat_loop that has read a line: it breaks or it dispatches
LineRead ==
    /\ pc = "chat_input"
    /\ \/ pc' = "finally" /\ error' = "none"
       \/ pc' = "await_list"

\* C18 as stated: the loop exits normally exactly when the input line is a
\* case-insensitive exact match of "quit"; every other line, the empty line
\* and "quit" with leading or trailing whitespace included, is dispatched
\* to process_query and its output printed; the sentinel line is never
\* dispatched.
C18_ExitOnExactSentinel ==
    /\ [][LineRead =>
            /\ QuitWord(lastLine') <=> pc' = "finally"
            /\ pc' = "await_list" => query' = Strip(lastLine')]_vars
    /\ [][pc = "print_response" =>
            (pc' = "chat_input" /\ printed' = result)]_vars

\* C18: the loop exits normally exactly when the input line, with leading
\* and trailing whitespace removed, is a case-insensitive match of "quit";
\* every other line, the empty line included, is dispatched to
\* process_query in its stripped form, and the output is printed when
\* process_query returns; a sentinel line is never dispatched.
C18_ExitOnStrippedSentinel ==
    /\ [][LineRead =>
            /\ PaddedQuitWord(lastLine') <=> pc' = "finally"
            /\ pc' = "await_list" => query' = Strip(lastLine')]_vars
    /\ [][pc = "print_response" =>
            (pc' = "chat_input" /\ printed' = result)]_vars

\* the loop was left on a line that is the sentinel in upper case with
\* whitespace around it
C18_Witness ==
    /\ pc = "finally"
    /\ exitCause = "chat_input"
    /\ error = "none"
    /\ lastLine = <<" ", "Q", "U", "I", "T", "\n">>

\* the dispatch loop waits for a reply of the model or of a tool
AwaitingModel == pc \in {"await_model1", "await_model2"}
AwaitingTool == pc = "await_tool"

\* C19: while a model call is outstanding the dispatch loop is suspended
\* cooperatively: the other tasks of the event loop, in particular the
\* session's channel reader, remain able to take steps, exactly as they can
\* while a tool call is outstanding.
C19_ModelCallYields ==
    ((AwaitingModel \/ AwaitingTool) /\ inbound > 0) => ENABLED ReaderStep

\* the positions inside the while loop of chat_loop
LoopPcs == QueryPcs \cup {"chat_input", "print_response", "except"}

\* C20: the loop is left only when the sentinel is read or an interrupt or
\* cancellation (not an Exception) is raised; an ordinary exception raised
\* inside an iteration, by input() itself too, is caught and reported, and
\* the loop returns to awaiting input with the session still open: teardown
\* is not reached on that path.
C20_LoopLeftOnlyBySentinelOrInterrupt ==
    /\ [][(pc \in LoopPcs /\ pc' \notin LoopPcs) =>
            /\ pc' = "finally"
            /\ \/ /\ pc = "chat_input"
                  /\ error' = "none"
                  /\ PaddedQuitWord(lastLine')
               \/ error' = "Interrupt"]_vars
    /\ [][(pc \in LoopPcs /\ error' \notin {error, "none", "Interrupt"}) =>
            pc' = "except"]_vars
    /\ [][pc = "except" =>
            /\ pc' = "chat_input"
            /\ printed' = Warning(error)
            /\ session' = "initialized"
            /\ process'.state = "running"
            /\ cleanup_calls' = 0]_vars
    /\ [](pc \in LoopPcs => (session = "initialized" /\ cleanup_calls = 0))

\* end of input was caught and reported; the loop is at the prompt again
\* with the session open
C20_Witness ==
    /\ pc = "chat_input"
    /\ caught
    /\ error = "EOFError"
    /\ printed = Warning("EOFError")
    /\ session = "initialized"
    /\ cleanup_calls = 0

=============================================================================
